---- MODULE Spec2Model ----
(***************************************************************************)
(* Model of the calendar insights engine (src/insights.py, src/utils.py,   *)
(* driven as in src/main.py).                                              *)
(*                                                                         *)
(* Python values are modelled as follows:                                  *)
(*   dict      a function; an absent key is a key outside DOMAIN           *)
(*   None      the record [none |-> TRUE]                                  *)
(*   datetime  a record [date |-> day number, secs |-> second of the day]  *)
(*   timedelta an integer number of seconds                                *)
(*   an ISO timestamp string  the pair <<day number, second of the day>>   *)
(*   an insertion-ordered dict whose order matters (MostFrequentAttendees) *)
(*             a sequence of <<key, value>> pairs                          *)
(***************************************************************************)
EXTENDS Integers, Sequences, FiniteSets, TLC

VARIABLES
    working_hours,      \* WorkingHours handed to Insights.__init__
    days,               \* insight name -> DailyTimeInMeetings._days
    previous_interval,  \* insight name -> DailyTimeInMeetings._previous_interval
    wasted,             \* DailyTimeWasted._days: day -> list of events
    people,             \* MostFrequentAttendees._people, in insertion order
    fed,                \* the events handed to Insights.process so far
    op,                 \* the last call made on the pipeline
    result,             \* what the last Insights.generate returned
    err                 \* the exception that ended the run, or "none"

vars == <<working_hours, days, previous_interval, wasted, people, fed, op, result, err>>

None == [none |-> TRUE]

\* dict.get(key, default)
Get(d, key, default) == IF key \in DOMAIN d THEN d[key] ELSE default

\* d[key] = value
Put(d, key, value) == [k \in DOMAIN d \cup {key} |-> IF k = key THEN value ELSE d[k]]

EmptyDict == [k \in {} |-> 0]

DaySeconds == 86400
Hour == 3600
START_OF_DAY == 9
END_OF_DAY == 18

-----------------------------------------------------------------------------
(* datetime arithmetic *)

\* a - b, in seconds
Minus(a, b) == (a.date - b.date) * DaySeconds + (a.secs - b.secs)

Before(a, b) == Minus(a, b) < 0

MaxTime(a, b) == IF Before(a, b) THEN b ELSE a

MinTime(a, b) == IF Before(b, a) THEN b ELSE a

\* datetime.combine(day, time_of_day)
combine(day, time_of_day) == [date |-> day, secs |-> time_of_day]

\* datetime.fromisoformat
fromisoformat(s) == [date |-> s[1], secs |-> s[2]]

-----------------------------------------------------------------------------
(* utils.TimeInterval *)

TimeInterval(start, end) == [start |-> start, end |-> end]

overlaps(self, interval) ==
    Before(MaxTime(self.start, interval.start), MinTime(self.end, interval.end))

\* merge without the min over the starts
merge_new_start(self, interval) ==
    TimeInterval(interval.start, MaxTime(self.end, interval.end))

merge(self, interval) ==
    TimeInterval(MinTime(self.start, interval.start), MaxTime(self.end, interval.end))

duration(self) == Minus(self.end, self.start)

\* date taken from the end of the range
date_of_end(self) == self.end.date

date(self) == self.start.date

-----------------------------------------------------------------------------
(* utils: event predicates *)

start_time(event) ==
    LET start == Get(Get(event, "start", EmptyDict), "dateTime", None)
    IN  IF start = None THEN None ELSE fromisoformat(start)

end_time(event) ==
    LET end == Get(Get(event, "end", EmptyDict), "dateTime", None)
    IN  IF end = None THEN None ELSE fromisoformat(end)

time_range(event) ==
    LET start == start_time(event)
        end == end_time(event)
    IN  IF start = None \/ end = None THEN None ELSE TimeInterval(start, end)

is_meeting(event) ==
    IF Get(event, "eventType", "default") \in {"outOfOffice", "focusTime", "workingLocation"}
    THEN FALSE
    ELSE start_time(event) # None

attendees_without_resources(event) ==
    SelectSeq(Get(event, "attendees", <<>>), LAMBDA a : ~Get(a, "resource", FALSE))

did_attendee_accept(attendee) == Get(attendee, "responseStatus", "needsAction") = "accepted"

self_attendee(event) ==
    LET attendees == Get(event, "attendees", <<>>)
        hits == {i \in DOMAIN attendees : Get(attendees[i], "self", FALSE)}
    IN  IF hits = {} THEN None
        ELSE attendees[CHOOSE i \in hits : \A j \in hits : i <= j]

is_accepted(event) ==
    LET attendee == self_attendee(event)
    IN  IF attendee = None THEN TRUE ELSE did_attendee_accept(attendee)

is_busy(event) ==
    IF Get(event, "transparency", "opaque") = "transparent" THEN FALSE
    ELSE IF ~is_accepted(event) THEN FALSE
    ELSE TRUE

\* is_pending that takes an event without the user in its attendee list for pending
is_pending_without_self(event) ==
    IF Get(event, "status", "tentative") = "tentative" THEN TRUE
    ELSE LET attendee == self_attendee(event)
         IN  IF attendee # None
             THEN Get(attendee, "responseStatus", "needsAction") \in {"needsAction", "tentative"}
             ELSE TRUE

is_pending(event) ==
    IF Get(event, "status", "tentative") = "tentative" THEN TRUE
    ELSE LET attendee == self_attendee(event)
         IN  IF attendee # None
             THEN Get(attendee, "responseStatus", "needsAction") \in {"needsAction", "tentative"}
             ELSE FALSE

is_confirmed(event) == Get(event, "status", "tentative") = "confirmed"

find_attendee(event, email) ==
    LET attendees == Get(event, "attendees", <<>>)
        hits == {i \in DOMAIN attendees :
                    "email" \in DOMAIN attendees[i] /\ attendees[i].email = email}
    IN  IF hits = {} THEN None
        ELSE attendees[CHOOSE i \in hits : \A j \in hits : i <= j]

\* The e-mail addresses of the model that end in 'calendar.google.com'.
SecondaryCalendarEmails == {"team@group.calendar.google.com"}

endswith_calendar_google_com(email) == email \in SecondaryCalendarEmails

is_organizer_attendee(event) ==
    LET is_self == Get(Get(event, "organizer", EmptyDict), "self", FALSE)
        organizer_email == Get(Get(event, "organizer", EmptyDict), "email", "")
        is_secondary_calendar == endswith_calendar_google_com(organizer_email)
        is_in_attendee_list == find_attendee(event, organizer_email) # None
    IN  ~is_self /\ ~is_secondary_calendar /\ ~is_in_attendee_list

RECURSIVE SumGuests(_)
SumGuests(attendees) ==
    IF attendees = <<>> THEN 0
    ELSE 1 + Get(Head(attendees), "additionalGuests", 0) + SumGuests(Tail(attendees))

count_attendees(event) ==
    (IF is_organizer_attendee(event) THEN 1 ELSE 0)
        + SumGuests(attendees_without_resources(event))

is_organizer(event) == Get(Get(event, "organizer", EmptyDict), "self", FALSE)

are_attendees_missing(event) ==
    IF Get(event, "attendeesOmitted", FALSE) THEN TRUE
    ELSE IF ~is_organizer(event) /\ ~Get(event, "guestsCanSeeOtherGuests", TRUE) THEN TRUE
    ELSE FALSE

is_one_on_one(event) ==
    IF ~is_meeting(event) THEN FALSE
    ELSE IF are_attendees_missing(event) THEN FALSE
    ELSE count_attendees(event) = 2

\* is_group_meeting with the threshold one too low
is_group_meeting_two_or_more(event) ==
    IF ~is_meeting(event) THEN FALSE
    ELSE IF are_attendees_missing(event) THEN TRUE
    ELSE count_attendees(event) >= 2

is_group_meeting(event) ==
    IF ~is_meeting(event) THEN FALSE
    ELSE IF are_attendees_missing(event) THEN TRUE
    ELSE count_attendees(event) >= 3

-----------------------------------------------------------------------------
(* insights.Insight: the filters *)

Insight_filter(event) ==
    IF ~is_meeting(event) THEN FALSE
    ELSE IF ~is_accepted(event) THEN FALSE
    ELSE IF ~is_confirmed(event) THEN FALSE
    ELSE IF ~is_busy(event) THEN FALSE
    ELSE TRUE

DailyTimeInOneOnOne_filter(event) ==
    IF ~is_one_on_one(event) THEN FALSE ELSE Insight_filter(event)

DailyTimeInGroupMeetings_filter(event) ==
    IF ~is_group_meeting(event) THEN FALSE ELSE Insight_filter(event)

DailyTimeInUnconfirmedMeetings_filter(event) == is_meeting(event) /\ is_pending(event)

\* The four DailyTimeInMeetings instances of Insights.__init__, in list order.
TimeInsights ==
    <<"dailyTimeInMeetings", "dailyTimeInGroupMeetings", "dailyTimeInOneOnOne",
      "dailyTimeUnconfirmed">>

TimeInsightNames == {TimeInsights[i] : i \in DOMAIN TimeInsights}

\* The filter of the insight called name (method resolution of self.filter).
filter(name, event) ==
    CASE name = "dailyTimeInGroupMeetings" -> DailyTimeInGroupMeetings_filter(event)
      [] name = "dailyTimeInOneOnOne" -> DailyTimeInOneOnOne_filter(event)
      [] name = "dailyTimeUnconfirmed" -> DailyTimeInUnconfirmedMeetings_filter(event)
      [] OTHER -> Insight_filter(event)

-----------------------------------------------------------------------------
(* insights.DailyTimeInMeetings *)

\* on_event without the overlap branch: every event adds its full duration
DailyTimeInMeetings_on_event_naive(self, event) ==
    LET interval == time_range(event)
    IN  IF interval = None THEN self
        ELSE LET day == date(interval)
             IN  [days |-> Put(self.days, day, duration(interval) + Get(self.days, day, 0)),
                  previous_interval |-> interval]

\* self is [days, previous_interval]; the value is self after the call.
DailyTimeInMeetings_on_event(self, event) ==
    LET interval == time_range(event)
    IN  IF interval = None THEN self
        ELSE IF self.previous_interval = None \/ ~overlaps(interval, self.previous_interval)
        THEN LET day == date(interval)
             IN  [days |-> Put(self.days, day, duration(interval) + Get(self.days, day, 0)),
                  previous_interval |-> interval]
        ELSE LET merged_interval == merge(self.previous_interval, interval)
                 added == duration(merged_interval) - duration(self.previous_interval)
                 day == date(merged_interval)
             IN  [days |-> Put(self.days, day, added + Get(self.days, day, 0)),
                  previous_interval |-> merged_interval]

\* process that hands every event to _on_event
DailyTimeInMeetings_process_unfiltered(name, self, event) ==
    DailyTimeInMeetings_on_event(self, event)

\* Insight.process for a DailyTimeInMeetings instance.
DailyTimeInMeetings_process(name, self, event) ==
    IF ~filter(name, event) THEN self ELSE DailyTimeInMeetings_on_event(self, event)

DailyTimeInMeetings_generate(self) == self.days

-----------------------------------------------------------------------------
(* insights.DailyTimeWasted *)

DailyTimeWasted_on_event(self_days, event) ==
    LET day == start_time(event).date
        events == Get(self_days, day, <<>>)
    IN  Put(self_days, day, Append(events, event))

DailyTimeWasted_process(self_days, event) ==
    IF ~Insight_filter(event) THEN self_days ELSE DailyTimeWasted_on_event(self_days, event)

\* gap_if_wasted with the hour itself counted as wasted
gap_if_wasted_inclusive(start, end) ==
    LET gap == Minus(start, end)
    IN  IF 0 < gap /\ gap <= Hour THEN gap ELSE 0

gap_if_wasted(start, end) ==
    LET gap == Minus(start, end)
    IN  IF 0 < gap /\ gap < Hour THEN gap ELSE 0

RECURSIVE calculate_day_loop(_, _, _, _)
calculate_day_loop(events, previous_end, total, end_of_day) ==
    IF events = <<>> THEN total + gap_if_wasted(end_of_day, previous_end)
    ELSE calculate_day_loop(Tail(events), end_time(Head(events)),
                            total + gap_if_wasted(start_time(Head(events)), previous_end),
                            end_of_day)

TypeError == [raise |-> "TypeError"]
AttributeError == [raise |-> "AttributeError"]

\* datetime - None raises TypeError: every event's end is subtracted from the
\* next start or from the end of the day.
calculate_day_raises(events) == \E i \in DOMAIN events : end_time(events[i]) = None

calculate_day(hours, day, events) ==
    IF calculate_day_raises(events) THEN TypeError
    ELSE calculate_day_loop(events, combine(day, hours.start), 0, combine(day, hours.end))

DailyTimeWasted_generate_raises(self_days) ==
    \E day \in DOMAIN self_days : calculate_day_raises(self_days[day])

DailyTimeWasted_generate(hours, self_days) ==
    IF DailyTimeWasted_generate_raises(self_days) THEN TypeError
    ELSE [day \in DOMAIN self_days |-> calculate_day(hours, day, self_days[day])]

-----------------------------------------------------------------------------
(* insights.MostFrequentAttendees *)

Keys(items) == {items[i][1] : i \in DOMAIN items}

\* dict.get(key, default) on an ordered dict
GetItem(items, key, default) ==
    IF key \in Keys(items)
    THEN items[CHOOSE i \in DOMAIN items : items[i][1] = key][2]
    ELSE default

\* d[key] = value on an ordered dict: a new key goes last
PutItem(items, key, value) ==
    IF key \in Keys(items)
    THEN [i \in DOMAIN items |-> IF items[i][1] = key THEN <<key, value>> ELSE items[i]]
    ELSE Append(items, <<key, value>>)

RECURSIVE MostFrequentAttendees_loop(_, _, _)
MostFrequentAttendees_loop(self_people, attendees, length) ==
    IF attendees = <<>> THEN self_people
    ELSE LET attendee == Head(attendees)
         IN  IF ~did_attendee_accept(attendee)
             THEN MostFrequentAttendees_loop(self_people, Tail(attendees), length)
             ELSE IF Get(attendee, "self", FALSE)
             THEN MostFrequentAttendees_loop(self_people, Tail(attendees), length)
             ELSE LET key == attendee.email
                      total == GetItem(self_people, key, 0) + length
                  IN  MostFrequentAttendees_loop(PutItem(self_people, key, total),
                                                 Tail(attendees), length)

\* None.duration() raises AttributeError
MostFrequentAttendees_on_event_raises(event) == time_range(event) = None

MostFrequentAttendees_on_event(self_people, event) ==
    LET interval == time_range(event)
    IN  IF MostFrequentAttendees_on_event_raises(event) THEN AttributeError
        ELSE MostFrequentAttendees_loop(self_people, attendees_without_resources(event),
                                        duration(interval))

MostFrequentAttendees_process_raises(event) ==
    Insight_filter(event) /\ MostFrequentAttendees_on_event_raises(event)

MostFrequentAttendees_process(self_people, event) ==
    IF ~Insight_filter(event) THEN self_people
    ELSE MostFrequentAttendees_on_event(self_people, event)

\* a sort that puts an item before the items of equal value placed earlier
InsertByTime_unstable(sorted, item) ==
    LET n == Cardinality({i \in DOMAIN sorted : sorted[i][2] > item[2]})
    IN  SubSeq(sorted, 1, n) \o <<item>> \o SubSeq(sorted, n + 1, Len(sorted))

\* sorted(items, key=value, reverse=True): stable, so an item goes behind every
\* item already placed whose value is at least its own.
InsertByTime(sorted, item) ==
    LET n == Cardinality({i \in DOMAIN sorted : sorted[i][2] >= item[2]})
    IN  SubSeq(sorted, 1, n) \o <<item>> \o SubSeq(sorted, n + 1, Len(sorted))

RECURSIVE sorted_by_time(_)
sorted_by_time(items) ==
    IF items = <<>> THEN <<>>
    ELSE InsertByTime(sorted_by_time(SubSeq(items, 1, Len(items) - 1)), items[Len(items)])

MostFrequentAttendees_generate(self_people) == sorted_by_time(self_people)

-----------------------------------------------------------------------------
(* insights.Insights, driven as in main.py *)

Last(seq) == seq[Len(seq)]

\* main.py lists the events with orderBy='startTime': a timed event never
\* starts before a timed event handed over earlier.
InOrder(event) ==
    \A i \in DOMAIN fed :
        (start_time(fed[i]) # None /\ start_time(event) # None)
            => ~Before(start_time(event), start_time(fed[i]))

\* Insights.__init__(working_hours)
InitWith(hours) ==
    /\ working_hours \in hours
    /\ days = [name \in TimeInsightNames |-> EmptyDict]
    /\ previous_interval = [name \in TimeInsightNames |-> None]
    /\ wasted = EmptyDict
    /\ people = <<>>
    /\ fed = <<>>
    /\ op = "init"
    /\ result = None
    /\ err = "none"

\* Insights.process(event): the six insights in list order; an exception
\* raised by one of them leaves the earlier ones updated and ends the run.
Process(event) ==
    /\ err = "none"
    /\ InOrder(event)
    /\ LET after == [name \in TimeInsightNames |->
                        DailyTimeInMeetings_process(name,
                            [days |-> days[name],
                             previous_interval |-> previous_interval[name]], event)]
           attendees == MostFrequentAttendees_process(people, event)
       IN  /\ days' = [name \in TimeInsightNames |-> after[name].days]
           /\ previous_interval' =
                  [name \in TimeInsightNames |-> after[name].previous_interval]
           /\ wasted' = DailyTimeWasted_process(wasted, event)
           /\ IF MostFrequentAttendees_process_raises(event)
              THEN people' = people /\ err' = "AttributeError"
              ELSE people' = attendees /\ err' = "none"
    /\ fed' = Append(fed, event)
    /\ op' = "process"
    /\ UNCHANGED <<working_hours, result>>

\* Insights.generate()
Generate ==
    /\ err = "none"
    /\ LET time_wasted == DailyTimeWasted_generate(working_hours, wasted)
       IN  IF DailyTimeWasted_generate_raises(wasted)
           THEN err' = "TypeError" /\ UNCHANGED result
           ELSE /\ err' = "none"
                /\ result' =
                       [name \in TimeInsightNames |->
                            DailyTimeInMeetings_generate(
                                [days |-> days[name],
                                 previous_interval |-> previous_interval[name]])]
                       @@ [dailyTimeWasted |-> time_wasted,
                           totalTimePerPerson |-> MostFrequentAttendees_generate(people)]
    /\ op' = "generate"
    /\ UNCHANGED <<working_hours, days, previous_interval, wasted, people, fed>>

\* WorkingHours(time(hour=START_OF_DAY), time(hour=END_OF_DAY)) of main.py
MainWorkingHours == [start |-> START_OF_DAY * Hour, end |-> END_OF_DAY * Hour]

\* An event that passes Insight.filter: timed, confirmed, opaque, no attendees.
Meeting(start, end) ==
    [start |-> [dateTime |-> start], end |-> [dateTime |-> end], status |-> "confirmed"]

\* The ISO timestamp seconds after day 0, 00:00.
Stamp(seconds) == <<seconds \div DaySeconds, seconds % DaySeconds>>

-----------------------------------------------------------------------------
(* Streams of qualifying meetings around midnight, for DailyTimeInMeetings *)

MaxMeetings == 3
MaxMeetingTick == 4
HalfHour == Hour \div 2

\* 23:00, 23:30 of day 0, then 00:00, 00:30, 01:00 of day 1
MeetingStamps == {Stamp(23 * Hour + k * HalfHour) : k \in 0..MaxMeetingTick}

MeetingEvents ==
    {Meeting(s, e) : <<s, e>> \in
        {p \in MeetingStamps \X MeetingStamps :
            ~Before(fromisoformat(p[2]), fromisoformat(p[1]))}}

InitMeetings == InitWith({MainWorkingHours})

ProcessMeeting == Len(fed) < MaxMeetings /\ \E event \in MeetingEvents : Process(event)

NextMeetings == ProcessMeeting \/ Generate

SpecMeetings == InitMeetings /\ [][NextMeetings]_vars

-----------------------------------------------------------------------------
(* Properties of DailyTimeInMeetings, checked under SpecMeetings *)

RECURSIVE SumOver(_, _)
\* the sum of f[x] over the finite set S
SumOver(S, f) ==
    IF S = {} THEN 0
    ELSE LET x == CHOOSE y \in S : TRUE IN f[x] + SumOver(S \ {x}, f)

\* seconds since day 0, 00:00
Abs(t) == t.date * DaySeconds + t.secs

\* the time ranges of the events fed so far that pass Insight.filter
QualifyingRanges ==
    {time_range(fed[i]) : i \in {j \in DOMAIN fed :
        Insight_filter(fed[j]) /\ time_range(fed[j]) # None}}

\* The length of the union of the ranges: the pieces between neighbouring
\* end points that lie inside some range.
UnionLength(ranges) ==
    LET points == {Abs(r.start) : r \in ranges} \cup {Abs(r.end) : r \in ranges}
        lower == {p \in points : \E q \in points : q > p}
        next(p) == CHOOSE q \in points : q > p /\ \A x \in points : x > p => q <= x
        covered(p) == \E r \in ranges : Abs(r.start) <= p /\ next(p) <= Abs(r.end)
    IN  SumOver({p \in lower : covered(p)}, [p \in lower |-> next(p) - p])

\* what DailyTimeInMeetings('dailyTimeInMeetings').generate() returns now
MeetingsGenerated ==
    DailyTimeInMeetings_generate(
        [days |-> days["dailyTimeInMeetings"],
         previous_interval |-> previous_interval["dailyTimeInMeetings"]])

Range(i) == time_range(fed[i])

\* C1: for qualifying events fed in start-time order, the durations returned by
\* generate(), summed over all days, equal the length of the union of the
\* events' intervals.
C1_TotalIsUnionLength ==
    SumOver(DOMAIN MeetingsGenerated, MeetingsGenerated) = UnionLength(QualifyingRanges)

\* C2: two overlapping meetings A, B that start on the same day, fed in order to
\* a fresh DailyTimeInMeetings, give that day exactly the span from A's start
\* to the later end, which is less than duration(A) + duration(B).
C2_TwoOverlapping ==
    (Len(fed) = 2 /\ overlaps(Range(1), Range(2))
        /\ start_time(fed[1]).date = start_time(fed[2]).date)
    => LET latest == IF Abs(Range(1).end) >= Abs(Range(2).end)
                     THEN Abs(Range(1).end) ELSE Abs(Range(2).end)
           span == latest - Abs(Range(1).start)
       IN  /\ DOMAIN MeetingsGenerated = {start_time(fed[1]).date}
           /\ MeetingsGenerated[start_time(fed[1]).date] = span
           /\ span = duration(merge(Range(1), Range(2)))
           /\ span < duration(Range(1)) + duration(Range(2))

\* two meetings of one day, the second starting and ending half an hour later
C2_Witness ==
    /\ Len(fed) = 2
    /\ overlaps(Range(1), Range(2))
    /\ start_time(fed[1]).date = start_time(fed[2]).date
    /\ Before(Range(1).start, Range(2).start)
    /\ Before(Range(1).end, Range(2).end)
    /\ SumOver(DOMAIN MeetingsGenerated, MeetingsGenerated) = 3 * HalfHour

PairwiseDisjoint ==
    \A i, j \in DOMAIN fed : i < j => ~overlaps(Range(i), Range(j))

\* C3: for pairwise non-overlapping meetings fed in order, generate() maps each
\* day to the sum of the raw durations (end - start) of the meetings that start
\* on it, and has no entry for any other day.
C3_DisjointRawDurations ==
    PairwiseDisjoint =>
        LET startDays == {start_time(fed[i]).date : i \in DOMAIN fed}
            raw(day) == SumOver({i \in DOMAIN fed : start_time(fed[i]).date = day},
                                [i \in DOMAIN fed |->
                                    Abs(end_time(fed[i])) - Abs(start_time(fed[i]))])
        IN  /\ DOMAIN MeetingsGenerated = startDays
            /\ \A day \in startDays : MeetingsGenerated[day] = raw(day)

\* three disjoint meetings over two days, one of them across midnight
C3_Witness ==
    /\ Len(fed) = 3
    /\ PairwiseDisjoint
    /\ DOMAIN MeetingsGenerated = {0, 1}
    /\ \E i \in DOMAIN fed : start_time(fed[i]).date # end_time(fed[i]).date
    /\ \A i \in DOMAIN fed : duration(Range(i)) > 0

\* the step hands one more event to Insights.process
ProcessStep == op' = "process" /\ Len(fed') = Len(fed) + 1

\* the buckets of 'dailyTimeInMeetings' other than day are as before the step
OnlyBucketChanged(day) ==
    \A d \in (DOMAIN days["dailyTimeInMeetings"] \cup DOMAIN days'["dailyTimeInMeetings"])
            \ {day} :
        /\ d \in DOMAIN days["dailyTimeInMeetings"]
        /\ d \in DOMAIN days'["dailyTimeInMeetings"]
        /\ days'["dailyTimeInMeetings"][d] = days["dailyTimeInMeetings"][d]

\* C9 as stated: all the time counted for a meeting goes to the bucket of the
\* meeting's own start date, none of it to another day's bucket.
C9_OwnStartDate ==
    [][ProcessStep => OnlyBucketChanged(start_time(Last(fed')).date)]_vars

\* C9 as amended: all the time counted for a meeting goes to one bucket, that of
\* the meeting's own start date when the meeting does not overlap the previous
\* interval, and that of the previous (merged) interval's start date when it
\* does; the bucket grows by the time the meeting adds to the previous interval.
C9_MergedStartDate ==
    [][ProcessStep =>
        LET event == Last(fed')
            previous == previous_interval["dailyTimeInMeetings"]
            fresh == previous = None \/ ~overlaps(time_range(event), previous)
            day == IF fresh THEN start_time(event).date ELSE previous.start.date
            added == IF fresh THEN Abs(end_time(event)) - Abs(start_time(event))
                     ELSE IF Abs(end_time(event)) > Abs(previous.end)
                     THEN Abs(end_time(event)) - Abs(previous.end)
                     ELSE 0
        IN  /\ OnlyBucketChanged(day)
            /\ days'["dailyTimeInMeetings"][day]
                   = Get(days["dailyTimeInMeetings"], day, 0) + added
       ]_vars

\* 23:30-00:30 and then 00:00-01:00: the second meeting starts on day 1 and its
\* extra half hour is in the bucket of day 0
C9_Witness ==
    /\ Len(fed) = 2
    /\ start_time(fed[1]).date = 0
    /\ start_time(fed[2]).date = 1
    /\ overlaps(Range(1), Range(2))
    /\ Before(Range(1).end, Range(2).end)
    /\ DOMAIN MeetingsGenerated = {0}
    /\ MeetingsGenerated[0] = duration(Range(1)) + Minus(Range(2).end, Range(1).end)

-----------------------------------------------------------------------------
(* Streams of qualifying meetings in the mornings of two days, and several *)
(* working hours, for DailyTimeWasted                                      *)

MaxWasted == 3
MaxWastedTick == 3

WastedDays == {0, 1}

\* 09:00, 09:30, 10:00, 10:30 of day 0, and 09:00, 09:30 of day 1
WastedStamps ==
    {<<0, START_OF_DAY * Hour + k * HalfHour>> : k \in 0..MaxWastedTick}
        \cup {<<1, START_OF_DAY * Hour + k * HalfHour>> : k \in 0..1}

WastedEvents ==
    {Meeting(s, e) : <<s, e>> \in
        {p \in WastedStamps \X WastedStamps : p[1][1] = p[2][1] /\ p[1][2] <= p[2][2]}}

\* 09:00-18:00 as in main.py, 09:00-09:30 (under an hour) and 09:30-10:30 (an
\* hour, inside the morning's grid)
WastedWorkingHours ==
    {MainWorkingHours,
     [start |-> START_OF_DAY * Hour, end |-> START_OF_DAY * Hour + HalfHour],
     [start |-> START_OF_DAY * Hour + HalfHour, end |-> START_OF_DAY * Hour + 3 * HalfHour]}

InitWasted == InitWith(WastedWorkingHours)

ProcessWasted == Len(fed) < MaxWasted /\ \E event \in WastedEvents : Process(event)

NextWasted == ProcessWasted \/ Generate

SpecWasted == InitWasted /\ [][NextWasted]_vars

\* the events DailyTimeWasted has buffered for day
Buffered(day) == Get(wasted, day, <<>>)

\* The i-th gap of a day with events: from the start of the working hours to
\* the first event, from each event's end to the next event's start, and from
\* the last event's end to the end of the working hours.
GapFrom(day, events, i) ==
    IF i = 1 THEN day * DaySeconds + working_hours.start ELSE Abs(end_time(events[i - 1]))

GapTo(day, events, i) ==
    IF i = Len(events) + 1 THEN day * DaySeconds + working_hours.end
    ELSE Abs(start_time(events[i]))

GapLength(day, events, i) == GapTo(day, events, i) - GapFrom(day, events, i)

\* the gaps of the day that are longer than nothing and shorter than an hour
CountedGaps(day, events) ==
    {i \in 1..(Len(events) + 1) :
        0 < GapLength(day, events, i) /\ GapLength(day, events, i) < 3600}

\* C4: for every day and every list of events buffered for it, the empty list
\* included, the wasted time is the sum of exactly the gaps g with 0 < g < 3600
\* seconds; a gap of 3600 seconds, a zero gap and a negative gap add nothing.
C4_WastedIsSumOfShortGaps ==
    \A day \in WastedDays :
        calculate_day(working_hours, day, Buffered(day))
            = SumOver(CountedGaps(day, Buffered(day)),
                      [i \in 1..(Len(Buffered(day)) + 1) |->
                          GapLength(day, Buffered(day), i)])

\* a day with three events and the four kinds of gap: an hour, negative, zero
\* and counted; and another day with no event at all
C4_Witness ==
    \E day \in WastedDays :
        LET events == Buffered(day)
            gaps == {GapLength(day, events, i) : i \in 1..(Len(events) + 1)}
        IN  /\ Len(events) = 3
            /\ \E g \in gaps : g = 3600
            /\ \E g \in gaps : g < 0
            /\ \E g \in gaps : g = 0
            /\ CountedGaps(day, events) # {}
            /\ calculate_day(working_hours, day, events) = HalfHour
            /\ \E other \in WastedDays : Buffered(other) = <<>>

\* C5: every gap that generate() counts as wasted is idle: no event buffered
\* for the day is in progress at an instant inside a counted gap.
C5_CountedGapsAreIdle ==
    op = "generate" =>
        \A day \in DOMAIN wasted :
            \A i \in CountedGaps(day, wasted[day]) :
                ~\E j \in DOMAIN wasted[day] :
                    /\ Abs(start_time(wasted[day][j])) < GapTo(day, wasted[day], i)
                    /\ Abs(end_time(wasted[day][j])) > GapFrom(day, wasted[day], i)

-----------------------------------------------------------------------------
(* Streams of meetings with attendee lists, for MostFrequentAttendees *)

MaxAttendeeEvents == 2

\* The attendee records of the model. Within one event the Calendar API lists
\* an e-mail address once, and every attendee has one.
Alice == [email |-> "alice@example.com", responseStatus |-> "accepted"]
Bob == [email |-> "bob@example.com", responseStatus |-> "accepted"]
Carol == [email |-> "carol@example.com"]
Room ==
    [email |-> "room@resource.calendar.google.com", responseStatus |-> "accepted",
     resource |-> TRUE]
Me == [email |-> "me@example.com", responseStatus |-> "accepted", self |-> TRUE]
MeDeclined == [email |-> "me@example.com", responseStatus |-> "declined", self |-> TRUE]

AttendeeKinds == {Alice, Bob, Carol, Room, Me, MeDeclined}

\* The people who accepted, in either order, alone, behind the user (who
\* accepted or declined) or before someone who did not answer and a room.
AttendeeLists ==
    LET accepted == {<<>>, <<Alice>>, <<Bob>>, <<Alice, Bob>>, <<Bob, Alice>>}
    IN  UNION {{list, <<Me>> \o list, <<MeDeclined>> \o list, list \o <<Carol, Room>>} :
                  list \in accepted}

\* meetings from 09:00 of day 0, half an hour or an hour long
AttendeeEvents ==
    {Meeting(Stamp(START_OF_DAY * Hour), Stamp(START_OF_DAY * Hour + k * HalfHour))
        @@ [attendees |-> list] : k \in 1..2, list \in AttendeeLists}

InitAttendees == InitWith({MainWorkingHours})

ProcessAttendees ==
    Len(fed) < MaxAttendeeEvents /\ \E event \in AttendeeEvents : Process(event)

NextAttendees == ProcessAttendees \/ Generate

SpecAttendees == InitAttendees /\ [][NextAttendees]_vars

\* what MostFrequentAttendees.generate() returns now, as a list of items
PeopleGenerated == MostFrequentAttendees_generate(people)

\* the event is a confirmed, timed, opaque meeting of a known type that the
\* user, if listed, accepted
Qualifies(event) ==
    /\ "start" \in DOMAIN event /\ "dateTime" \in DOMAIN event.start
    /\ ~("eventType" \in DOMAIN event
            /\ event.eventType \in {"outOfOffice", "focusTime", "workingLocation"})
    /\ "status" \in DOMAIN event /\ event.status = "confirmed"
    /\ ~("transparency" \in DOMAIN event /\ event.transparency = "transparent")
    /\ \A i \in DOMAIN Get(event, "attendees", <<>>) :
           LET a == event.attendees[i]
           IN  ("self" \in DOMAIN a /\ a.self
                    /\ \A j \in 1..(i - 1) :
                           ~("self" \in DOMAIN event.attendees[j] /\ event.attendees[j].self))
               => ("responseStatus" \in DOMAIN a /\ a.responseStatus = "accepted")

\* attendee i of fed[n] is a person other than the user who accepted
Counted(n, i) ==
    LET a == fed[n].attendees[i]
    IN  /\ ~("resource" \in DOMAIN a /\ a.resource)
        /\ ~("self" \in DOMAIN a /\ a.self)
        /\ "responseStatus" \in DOMAIN a /\ a.responseStatus = "accepted"

\* the places <<n, i>> where key is counted in a qualifying event
Encounters(key) ==
    {p \in UNION {{<<n, i>> : i \in DOMAIN Get(fed[n], "attendees", <<>>)} :
                      n \in DOMAIN fed} :
        /\ Qualifies(fed[p[1]])
        /\ fed[p[1]].attendees[p[2]].email = key
        /\ Counted(p[1], p[2])}

AllEmails == {a.email : a \in AttendeeKinds}

\* key was first encountered before other was
EncounteredBefore(key, other) ==
    \E p \in Encounters(key) : \A q \in Encounters(other) :
        p[1] < q[1] \/ (p[1] = q[1] /\ p[2] < q[2])

\* C6: generate() has an entry for exactly the keys that appear in a qualifying
\* event as a non-resource, non-self attendee who accepted; its value is the
\* sum of the durations of those events; the entries are in non-increasing
\* order of duration, ties in the order of first encounter.
C6_AttendeeTotalsSorted ==
    LET generated == PeopleGenerated
    IN  /\ \A i, j \in DOMAIN generated : i # j => generated[i][1] # generated[j][1]
        /\ {generated[i][1] : i \in DOMAIN generated}
               = {key \in AllEmails : Encounters(key) # {}}
        /\ \A i \in DOMAIN generated :
               generated[i][2]
                   = SumOver({p[1] : p \in Encounters(generated[i][1])},
                             [n \in DOMAIN fed |->
                                 Abs(end_time(fed[n])) - Abs(start_time(fed[n]))])
        /\ \A i, j \in DOMAIN generated :
               i < j =>
                   /\ generated[i][2] >= generated[j][2]
                   /\ generated[i][2] = generated[j][2]
                          => EncounteredBefore(generated[i][1], generated[j][1])

\* two keys, the one met second with the larger total and so listed first, in a
\* stream that also holds a room, the user and an attendee who did not accept
C6_Witness ==
    /\ Len(people) = 2
    /\ Len(PeopleGenerated) = 2
    /\ PeopleGenerated[1] = people[2]
    /\ PeopleGenerated[1][2] > PeopleGenerated[2][2]
    /\ \E n \in DOMAIN fed : \E i \in DOMAIN fed[n].attendees :
           ~Counted(n, i)

-----------------------------------------------------------------------------
(* Single events with every kind of attendee list, organizer and visibility *)
(* flag, for the classification into one-on-one and group meetings          *)

MaxClassified == 1

AliceWithGuest ==
    [email |-> "alice@example.com", responseStatus |-> "accepted", additionalGuests |-> 1]

ClassifiedAttendees ==
    {EmptyDict} \cup
    {[attendees |-> list] : list \in
        {<<Me>>, <<Me, Alice>>, <<Me, Alice, Bob>>, <<Me, AliceWithGuest>>,
         <<Me, Alice, Room>>}}

ClassifiedOrganizers ==
    {EmptyDict} \cup
    {[organizer |-> o] : o \in
        {[email |-> "me@example.com", self |-> TRUE],
         [email |-> "boss@example.com"],
         [email |-> "alice@example.com", self |-> FALSE],
         [email |-> "team@group.calendar.google.com"]}}

ClassifiedFlags ==
    {omitted @@ guests :
        omitted \in {EmptyDict, [attendeesOmitted |-> TRUE], [attendeesOmitted |-> FALSE]},
        guests \in {EmptyDict, [guestsCanSeeOtherGuests |-> TRUE],
                    [guestsCanSeeOtherGuests |-> FALSE]}}

\* an all-day event: dates, no timestamps
AllDay == [start |-> [date |-> 0], end |-> [date |-> 1], status |-> "confirmed"]

ClassifiedEvents ==
    {Meeting(Stamp(START_OF_DAY * Hour), Stamp((START_OF_DAY + 1) * Hour)) @@ a @@ o @@ f :
        a \in ClassifiedAttendees, o \in ClassifiedOrganizers, f \in ClassifiedFlags}
    \cup {[eventType |-> "focusTime", attendeesOmitted |-> TRUE]
              @@ Meeting(Stamp(START_OF_DAY * Hour), Stamp((START_OF_DAY + 1) * Hour)),
          [attendeesOmitted |-> TRUE] @@ AllDay,
          [attendees |-> <<Me, Alice>>, organizer |-> [self |-> TRUE]] @@ AllDay}

InitClassified == InitWith({MainWorkingHours})

ProcessClassified ==
    Len(fed) < MaxClassified /\ \E event \in ClassifiedEvents : Process(event)

NextClassified == ProcessClassified \/ Generate

SpecClassified == InitClassified /\ [][NextClassified]_vars

\* the attendee list of the event may be incomplete
MayBeIncomplete(event) ==
    \/ "attendeesOmitted" \in DOMAIN event /\ event.attendeesOmitted
    \/ /\ ~("organizer" \in DOMAIN event /\ "self" \in DOMAIN event.organizer
                /\ event.organizer.self)
       /\ "guestsCanSeeOtherGuests" \in DOMAIN event /\ ~event.guestsCanSeeOtherGuests

\* C7: no event is both one-on-one and group; a meeting whose attendee list may
\* be incomplete is group and not one-on-one whatever its attendee count; so no
\* event adds time to both dailyTimeInOneOnOne and dailyTimeInGroupMeetings.
C7_OneOnOneXorGroup ==
    /\ \A i \in DOMAIN fed :
           /\ ~(is_one_on_one(fed[i]) /\ is_group_meeting(fed[i]))
           /\ (is_meeting(fed[i]) /\ MayBeIncomplete(fed[i]))
                  => (is_group_meeting(fed[i]) /\ ~is_one_on_one(fed[i]))
    /\ Len(fed) = 1
           => ~(/\ days["dailyTimeInOneOnOne"] # EmptyDict
                /\ days["dailyTimeInGroupMeetings"] # EmptyDict)

\* a meeting of two whose guests cannot see each other, counted as group
C7_Witness ==
    /\ Len(fed) = 1
    /\ MayBeIncomplete(fed[1])
    /\ ~Get(fed[1], "attendeesOmitted", FALSE)
    /\ count_attendees(fed[1]) = 2
    /\ days["dailyTimeInGroupMeetings"] # EmptyDict
    /\ days["dailyTimeInOneOnOne"] = EmptyDict

-----------------------------------------------------------------------------
(* Streams that mix qualifying, pending, free and untimed events *)

MaxEvents == 2

MeNeedsAction == [email |-> "me@example.com", self |-> TRUE]

\* timed twice, all-day, and with the start or the end timestamp missing
Timings ==
    {[start |-> [dateTime |-> Stamp(START_OF_DAY * Hour)],
      end |-> [dateTime |-> Stamp((START_OF_DAY + 1) * Hour)]],
     [start |-> [dateTime |-> Stamp(START_OF_DAY * Hour + HalfHour)],
      end |-> [dateTime |-> Stamp((START_OF_DAY + 2) * Hour)]],
     [start |-> [date |-> 0], end |-> [date |-> 1]],
     [start |-> [dateTime |-> Stamp(START_OF_DAY * Hour)]],
     [start |-> [date |-> 0], end |-> [dateTime |-> Stamp((START_OF_DAY + 1) * Hour)]]}

\* confirmed; tentative by default; free; one-on-one; group; not yet answered
Details ==
    {[status |-> "confirmed"],
     EmptyDict,
     [status |-> "confirmed", transparency |-> "transparent"],
     [status |-> "confirmed", organizer |-> [email |-> "me@example.com", self |-> TRUE],
      attendees |-> <<Me, Alice>>],
     [status |-> "confirmed", organizer |-> [email |-> "me@example.com", self |-> TRUE],
      attendees |-> <<Me, Alice, Bob>>],
     [status |-> "confirmed", organizer |-> [email |-> "alice@example.com"],
      attendees |-> <<MeNeedsAction, Alice>>]}

Events == {timing @@ detail : timing \in Timings, detail \in Details}

Init == InitWith({MainWorkingHours})

ProcessEvent == Len(fed) < MaxEvents /\ \E event \in Events : Process(event)

Next == ProcessEvent \/ Generate

Spec == Init /\ [][Next]_vars

\* the event lacks a start timestamp or an end timestamp
Untimed(event) ==
    \/ ~("start" \in DOMAIN event /\ "dateTime" \in DOMAIN event.start)
    \/ ~("end" \in DOMAIN event /\ "dateTime" \in DOMAIN event.end)

\* C8: an event without a start or an end timestamp is skipped by every
\* aggregator: process and generate complete without raising, and the event is
\* in no result.
C8_UntimedEventsSkipped ==
    (\E i \in DOMAIN fed : Untimed(fed[i]))
        => /\ err = "none"
           /\ \A day \in DOMAIN wasted : \A j \in DOMAIN wasted[day] :
                  ~Untimed(wasted[day][j])

\* C10: the state of an aggregator changes only in a process call with an event
\* its filter accepts; process of a rejected event and generate leave it as it
\* is, and a generate call right after a generate call returns the same.
C10_OnlyAcceptedEventsChangeState ==
    [][/\ \A name \in TimeInsightNames :
              (days'[name] # days[name] \/ previous_interval'[name] # previous_interval[name])
                  => /\ ProcessStep
                     /\ IF name = "dailyTimeInMeetings" THEN Qualifies(Last(fed'))
                        ELSE filter(name, Last(fed'))
       /\ wasted' # wasted => (ProcessStep /\ Qualifies(Last(fed')))
       /\ people' # people => (ProcessStep /\ Qualifies(Last(fed')))
       /\ (op = "generate" /\ op' = "generate") => result' = result
      ]_vars

\* generate after an accepted meeting and then an all-day event that every
\* filter rejects: the results hold the meeting alone
C10_Witness ==
    /\ op = "generate"
    /\ Len(fed) = 2
    /\ Qualifies(fed[1]) /\ ~Untimed(fed[1])
    /\ \A name \in TimeInsightNames : ~filter(name, fed[2])
    /\ ~Qualifies(fed[2])
    /\ result # None
    /\ result["dailyTimeInMeetings"] = (0 :> duration(Range(1)))
    /\ wasted = (0 :> <<fed[1]>>)

-----------------------------------------------------------------------------
(* Streams of timed meetings with every status and every answer of the user, *)
(* for the base filter against the filter of the unconfirmed meetings        *)

MaxAnswered == 2

MeTentative == [email |-> "me@example.com", responseStatus |-> "tentative", self |-> TRUE]

\* no status (tentative by default), tentative, confirmed, cancelled
AnsweredStatuses ==
    {EmptyDict, [status |-> "tentative"], [status |-> "confirmed"], [status |-> "cancelled"]}

\* the user not listed, accepted, without an answer, tentative, declined
AnsweredAttendees ==
    {EmptyDict} \cup
    {[attendees |-> <<me, Alice>>] : me \in {Me, MeNeedsAction, MeTentative, MeDeclined}}

\* one-hour meetings from 09:00 of day 0, a free one and an all-day event
AnsweredEvents ==
    {[start |-> [dateTime |-> Stamp(START_OF_DAY * Hour)],
      end |-> [dateTime |-> Stamp((START_OF_DAY + 1) * Hour)]] @@ status @@ attendees :
        status \in AnsweredStatuses, attendees \in AnsweredAttendees}
    \cup {[transparency |-> "transparent"]
              @@ Meeting(Stamp(START_OF_DAY * Hour), Stamp((START_OF_DAY + 1) * Hour)),
          [start |-> [date |-> 0], end |-> [date |-> 1]]}

InitAnswered == InitWith({MainWorkingHours})

ProcessAnswered == Len(fed) < MaxAnswered /\ \E event \in AnsweredEvents : Process(event)

NextAnswered == ProcessAnswered \/ Generate

SpecAnswered == InitAnswered /\ [][NextAnswered]_vars

\* the step changes the state of the DailyTimeInMeetings instance called name
Contributes(name) ==
    days'[name] # days[name] \/ previous_interval'[name] # previous_interval[name]

\* C11: no event passes both the base filter and the filter of the unconfirmed
\* meetings, so no event handed to process adds time to both
\* dailyTimeInMeetings and dailyTimeUnconfirmed.
C11_BaseAndUnconfirmedDisjoint ==
    [][ProcessStep =>
        /\ ~(Insight_filter(Last(fed')) /\ DailyTimeInUnconfirmedMeetings_filter(Last(fed')))
        /\ ~(Contributes("dailyTimeInMeetings") /\ Contributes("dailyTimeUnconfirmed"))
      ]_vars

\* a confirmed meeting the user accepted and a confirmed meeting the user has
\* not answered: an hour in each of the two results, from one event each
C11_Witness ==
    /\ Len(fed) = 2
    /\ Get(fed[1], "status", "tentative") = "confirmed"
    /\ Get(fed[2], "status", "tentative") = "confirmed"
    /\ "attendees" \in DOMAIN fed[1] /\ fed[1].attendees[1] = Me
    /\ "attendees" \in DOMAIN fed[2] /\ fed[2].attendees[1] = MeNeedsAction
    /\ days["dailyTimeInMeetings"] = (0 :> Hour)
    /\ days["dailyTimeUnconfirmed"] = (0 :> Hour)

====
